---- MODULE Spec2Model ----
(***************************************************************************)
(* A model of the ojg core: gen.Builder (src/gen/builder.go), the time     *)
(* encoders (src/gd/time.go, oj.Writer.appendTime), the indented JSON      *)
(* Writer (package oj) and the alt.Decompose / alt.Alter entry points.     *)
(***************************************************************************)
EXTENDS Integers, Sequences, FiniteSets, TLC

(***************************************************************************)
(* Bounds of the model.                                                    *)
(***************************************************************************)
MaxCalls == 5      \* accepted Builder calls between two Resets
MaxIndent == 1     \* largest Options.Indent
MaxWriteLimit == 3 \* largest Options.WriteLimit
MaxFail == 2       \* the sink fails at its first .. MaxFail-th Write, or never
MaxTenths == 10    \* instants range over -MaxTenths .. MaxTenths tenths of a second

VARIABLES
    stack,      \* Builder.stack: the node stack
    starts,     \* Builder.starts: the start markers (Go, 0-based indices, -1 = object)
    heap,       \* the Object maps the builder's nodes refer to (Go maps are references)
    nobj,       \* number of Object maps allocated so far
    berr,       \* the error returned by the last Builder call
    bpanic,     \* TRUE once a Builder call has panicked (index or slice out of range)
    result,     \* the Node returned by the last Result call
    ncalls,     \* number of accepted calls since the last Reset (bounds the model)
    owner,      \* history: per open frame, the Object that opened it (0 for an array frame)
    kids,       \* history: per open frame, the nodes added directly to it, in order
    call,       \* history: the last Builder call and its arguments
    writer,     \* the oj.Writer: its Options, buffer and function table
    input,      \* the value the caller encodes
    sink,       \* the io.Writer of the last Write / MustWrite: what it received
    convs,      \* history: the values Converter.Convert was invoked on in the last call
    ret         \* what the last Writer call returned, or the panic it raised

bvars == <<stack, starts, heap, nobj, berr, bpanic, result, ncalls, owner, kids, call>>
wvars == <<writer, input, sink, convs, ret>>
vars == <<bvars, wvars>>

(***************************************************************************)
(* gen.Node values.  An Object is a Go map, so a node holds a reference    *)
(* (an index into heap); an Array is a slice that is never written after   *)
(* Pop built it, so it is held by value.                                   *)
(***************************************************************************)
Keys == {"a", "b"}

Leaf(v) == [t |-> "leaf", n |-> v, k |-> "", e |-> <<>>]
Ref(id) == [t |-> "obj", n |-> id, k |-> "", e |-> <<>>]
KeyNode(key) == [t |-> "key", n |-> 0, k |-> key, e |-> <<>>]
ArrayNode(elems) == [t |-> "arr", n |-> 0, k |-> "", e |-> elems]
NilNode == [t |-> "nil", n |-> 0, k |-> "", e |-> <<>>]
Absent == [t |-> "none", n |-> 0, k |-> "", e |-> <<>>]
EmptyArray == ArrayNode(<<>>)
EmptyObject == [key \in Keys |-> Absent]

ErrNil == "nil"
ErrKeyInArray == "can not use a key when pushing to an array"
ErrNoKeyInObject == "must have a key when pushing to an object"

\* The builder as one record, so that the methods are operators on it.
Builder(st, ss, hp, no, pn) == [stack |-> st, starts |-> ss, heap |-> hp, nobj |-> no, panic |-> pn, err |-> ErrNil]

Top(s) == s[Len(s)]
Truncate(s, n) == SubSeq(s, 1, n)

\* len(b.starts) == 0 || 0 <= b.starts[len(b.starts)-1]
NotInObjectIgnoresRoot(b) == Len(b.starts) # 0 /\ 0 <= Top(b.starts)
NotInObject(b) == Len(b.starts) = 0 \/ 0 <= Top(b.starts)

\* 0 < len(b.starts) && b.starts[len(b.starts)-1] < 0
InObject(b) == 0 < Len(b.starts) /\ Top(b.starts) < 0

\* if obj, _ := b.stack[len(b.stack)-1].(Object); obj != nil { obj[key] = value }
\* The index expression panics on an empty stack.
SetInTop(b, key, value) ==
    IF Len(b.stack) = 0 THEN [b EXCEPT !.panic = TRUE]
    ELSE IF Top(b.stack).t = "obj"
         THEN [b EXCEPT !.heap[Top(b.stack).n][key] = value]
         ELSE b

\* func (b *Builder) Object(key ...string) error
BObject(b, hasKey, key) ==
    LET id == b.nobj + 1
        newObj == Ref(id)
        alloc == [b EXCEPT !.nobj = id, !.heap = Append(b.heap, EmptyObject)]
        push(c) == [c EXCEPT !.starts = Append(c.starts, -1), !.stack = Append(c.stack, newObj)]
    IN IF hasKey
       THEN IF NotInObject(b) THEN [b EXCEPT !.err = ErrKeyInArray]
            ELSE LET c == SetInTop(alloc, key, newObj)
                 IN IF c.panic THEN [b EXCEPT !.panic = TRUE] ELSE push(c)
       ELSE IF InObject(b) THEN [b EXCEPT !.err = ErrNoKeyInObject]
            ELSE push(alloc)

\* func (b *Builder) Array(key ...string) error
BArray(b, hasKey, key) ==
    LET push(c) == [c EXCEPT !.starts = Append(c.starts, Len(c.stack)), !.stack = Append(c.stack, EmptyArray)]
    IN IF hasKey
       THEN IF NotInObject(b) THEN [b EXCEPT !.err = ErrKeyInArray]
            ELSE push([b EXCEPT !.stack = Append(b.stack, KeyNode(key))])
       ELSE IF InObject(b) THEN [b EXCEPT !.err = ErrNoKeyInObject]
            ELSE push(b)

\* func (b *Builder) Value(value Node, key ...string) error
BValue(b, value, hasKey, key) ==
    IF hasKey
    THEN IF NotInObject(b) THEN [b EXCEPT !.err = ErrKeyInArray]
         ELSE SetInTop(b, key, value)
    ELSE IF InObject(b) THEN [b EXCEPT !.err = ErrNoKeyInObject]
         ELSE [b EXCEPT !.stack = Append(b.stack, value)]

\* Lines 90-96 of Pop: attach the closed array to the object under the key
\* that Array(key) pushed, and drop the key and the array from the stack.
CollapseDropsObject(b, a) ==
    IF 2 < Len(b.stack)
       /\ b.stack[Len(b.stack) - 1].t = "key"
       /\ b.stack[Len(b.stack) - 2].t = "obj"
    THEN [b EXCEPT !.heap[b.stack[Len(b.stack) - 2].n][b.stack[Len(b.stack) - 1].k] = a,
                   !.stack = Truncate(b.stack, Len(b.stack) - 3)]
    ELSE b
Collapse(b, a) ==
    IF 2 < Len(b.stack)
       /\ b.stack[Len(b.stack) - 1].t = "key"
       /\ b.stack[Len(b.stack) - 2].t = "obj"
    THEN [b EXCEPT !.heap[b.stack[Len(b.stack) - 2].n][b.stack[Len(b.stack) - 1].k] = a,
                   !.stack = Truncate(b.stack, Len(b.stack) - 2)]
    ELSE b

\* func (b *Builder) Pop()
BPop(b) ==
    IF 0 < Len(b.starts)
    THEN LET start == Top(b.starts) + 1
             popped(c) == [c EXCEPT !.starts = Truncate(c.starts, Len(c.starts) - 1)]
         IN IF 0 <= Top(b.starts)
            THEN IF Len(b.stack) < start
                 THEN [b EXCEPT !.panic = TRUE]      \* make([]Node, size) with size < 0
                 ELSE LET a == ArrayNode(SubSeq(b.stack, start + 1, Len(b.stack)))
                          c == [b EXCEPT !.stack = [Truncate(b.stack, start) EXCEPT ![start] = a]]
                      IN popped(Collapse(c, a))
            ELSE popped(b)
    ELSE b

\* func (b *Builder) PopAll()
RECURSIVE BPopAll(_)
BPopAll(b) ==
    IF 0 < Len(b.starts) /\ ~b.panic THEN BPopAll(BPop(b)) ELSE b

\* func (b *Builder) Result() (result Node)
BResult(b) == IF 0 < Len(b.stack) THEN b.stack[1] ELSE NilNode

(***************************************************************************)
(* The Builder as a state machine: one action per method.                  *)
(***************************************************************************)
Cur == Builder(stack, starts, heap, nobj, bpanic)

NoCall == [op |-> "none", hasKey |-> FALSE, key |-> "", value |-> NilNode]
CallOf(op, hasKey, key, value) == [op |-> op, hasKey |-> hasKey, key |-> IF hasKey THEN key ELSE "", value |-> value]
\* Of a refused call only the method and the presence of a key are recorded.
Called(b, op, hasKey, key, value) ==
    call' = IF b.err = ErrNil THEN CallOf(op, hasKey, key, value) ELSE CallOf(op, hasKey, "", NilNode)

Install(b) ==
    /\ stack' = b.stack
    /\ starts' = b.starts
    /\ heap' = b.heap
    /\ nobj' = b.nobj
    /\ berr' = b.err
    /\ bpanic' = b.panic

\* The frames that are still open after the call, for the history variable.
PushOwner(b, o) == IF Len(b.starts) > Len(starts) THEN Append(owner, o) ELSE owner

\* The node a call adds to the innermost open frame, for the history variable.
AddKid(ks, node) == IF 0 < Len(ks) THEN [ks EXCEPT ![Len(ks)] = Append(@, node)] ELSE ks

\* The frame a call opens: the new node is a kid of the frame it is opened in
\* when the call has no key (an object is on the stack from the Object call
\* on, an array once Pop has built it).
OpenKid(b, hasKey, node) ==
    IF b.err # ErrNil \/ b.panic THEN kids
    ELSE Append(IF hasKey THEN kids ELSE AddKid(kids, node), <<>>)

\* The elements an array frame i holds once the frames above it are closed:
\* its kids, and the array of frame i + 1 if that was opened directly in it.
RECURSIVE Closed(_, _)
Closed(ks, i) ==
    ks[i] \o (IF i < Len(ks) /\ owner[i] = 0 /\ owner[i + 1] = 0
              THEN <<ArrayNode(Closed(ks, i + 1))>>
              ELSE <<>>)

\* The kids after Pop closed the innermost frame
PopKid(ks) ==
    IF Len(ks) = 0 THEN ks
    ELSE IF 1 < Len(ks) /\ owner[Len(ks)] = 0 /\ owner[Len(ks) - 1] = 0
         THEN AddKid(Truncate(ks, Len(ks) - 1), ArrayNode(ks[Len(ks)]))
         ELSE Truncate(ks, Len(ks) - 1)

NoHeap == <<>>

\* A call that returns an error leaves the builder as it was and is not counted.
Count(b) == ncalls' = IF b.err = ErrNil THEN ncalls + 1 ELSE ncalls

BInit ==
    /\ stack = <<>>
    /\ starts = <<>>
    /\ heap = NoHeap
    /\ nobj = 0
    /\ berr = ErrNil
    /\ bpanic = FALSE
    /\ result = NilNode
    /\ ncalls = 0
    /\ owner = <<>>
    /\ kids = <<>>
    /\ call = NoCall

\* func (b *Builder) Reset()
Reset ==
    /\ ~bpanic
    /\ stack' = <<>>
    /\ starts' = <<>>
    /\ heap' = NoHeap
    /\ nobj' = 0
    /\ berr' = ErrNil
    /\ ncalls' = 0
    /\ result' = NilNode
    /\ owner' = <<>>
    /\ kids' = <<>>
    /\ call' = CallOf("Reset", FALSE, "", NilNode)
    /\ UNCHANGED bpanic
    /\ UNCHANGED wvars

Object ==
    /\ ~bpanic
    /\ ncalls < MaxCalls
    /\ \E hasKey \in BOOLEAN : \E key \in Keys :
         /\ hasKey \/ key = "a"
         /\ LET b == BObject(Cur, hasKey, key)
            IN /\ Install(b)
               /\ Count(b)
               /\ owner' = PushOwner(b, b.nobj)
               /\ kids' = OpenKid(b, hasKey, Ref(b.nobj))
               /\ Called(b, "Object", hasKey, key, NilNode)
    /\ result' = NilNode
    /\ UNCHANGED wvars

Array ==
    /\ ~bpanic
    /\ ncalls < MaxCalls
    /\ \E hasKey \in BOOLEAN : \E key \in Keys :
         /\ hasKey \/ key = "a"
         /\ LET b == BArray(Cur, hasKey, key)
            IN /\ Install(b)
               /\ Count(b)
               /\ owner' = PushOwner(b, 0)
               /\ kids' = OpenKid(b, TRUE, NilNode)
               /\ Called(b, "Array", hasKey, key, NilNode)
    /\ result' = NilNode
    /\ UNCHANGED wvars

\* The nodes a caller hands to Value: a leaf, a Key, or an Object of its own.
Value ==
    /\ ~bpanic
    /\ ncalls < MaxCalls
    /\ \E hasKey \in BOOLEAN : \E key \in Keys : \E kind \in {"leaf", "key", "obj"} :
         /\ hasKey \/ key = "a"
         /\ LET value == CASE kind = "leaf" -> Leaf(1)
                           [] kind = "key" -> KeyNode("b")
                           [] OTHER -> Ref(nobj + 1)
                pre == IF kind = "obj"
                       THEN [Cur EXCEPT !.nobj = nobj + 1, !.heap = Append(heap, EmptyObject)]
                       ELSE Cur
                b == BValue(pre, value, hasKey, key)
            IN /\ Install(IF b.err = ErrNil THEN b ELSE [Cur EXCEPT !.err = b.err])
               /\ Count(b)
               /\ Called(b, "Value", hasKey, key, value)
               /\ kids' = IF b.err = ErrNil /\ ~b.panic /\ ~hasKey THEN AddKid(kids, value) ELSE kids
    /\ result' = NilNode
    /\ UNCHANGED owner
    /\ UNCHANGED wvars

Pop ==
    /\ ~bpanic
    /\ ncalls < MaxCalls
    /\ LET b == BPop(Cur)
       IN /\ Install(b)
          /\ Count(b)
          /\ owner' = Truncate(owner, Len(b.starts))
    /\ kids' = PopKid(kids)
    /\ call' = CallOf("Pop", FALSE, "", NilNode)
    /\ result' = NilNode
    /\ UNCHANGED wvars

PopAll ==
    /\ ~bpanic
    /\ ncalls < MaxCalls
    /\ LET b == BPopAll(Cur)
       IN /\ Install(b)
          /\ Count(b)
          /\ owner' = Truncate(owner, Len(b.starts))
    /\ kids' = <<>>
    /\ call' = CallOf("PopAll", FALSE, "", NilNode)
    /\ result' = NilNode
    /\ UNCHANGED wvars

Result ==
    /\ ~bpanic
    /\ result' = BResult(Cur)
    /\ berr' = ErrNil
    /\ call' = CallOf("Result", FALSE, "", NilNode)
    /\ UNCHANGED <<stack, starts, heap, nobj, bpanic, ncalls, owner, kids>>
    /\ UNCHANGED wvars

BNext == Reset \/ Object \/ Array \/ Value \/ Pop \/ PopAll \/ Result

(***************************************************************************)
(* Builder claims.  In a step of BNext, call' is the call the step makes,  *)
(* the unprimed variables are the builder before it and the primed ones    *)
(* the builder after it.                                                   *)
(***************************************************************************)
InObjectFrame == 0 < Len(starts) /\ Top(starts) < 0
InArrayFrame == 0 < Len(starts) /\ 0 <= Top(starts)
KeyedCalls == {"Object", "Array", "Value"}

OnlyObjectChanged(p) == \A id \in 1..Len(heap) : id # p => heap'[id] = heap[id]

\* C1: a Value or Object call accepted with a key stores the new entry under
\* that key in the object that opened the innermost open frame and changes no
\* other object; the array of an Array(key) call, once Pop closes it, is
\* stored in the object that opened the frame the array was opened in.
C1_StoreStep ==
    /\ (call'.op \in {"Value", "Object"} /\ call'.hasKey /\ berr' = ErrNil /\ ~bpanic')
         => /\ 0 < Len(owner) /\ Top(owner) > 0
            /\ heap'[Top(owner)][call'.key] = (IF call'.op = "Value" THEN call'.value ELSE Ref(nobj'))
            /\ OnlyObjectChanged(Top(owner))
    /\ (call'.op = "Pop" /\ 1 < Len(owner) /\ Top(owner) = 0 /\ owner[Len(owner) - 1] > 0 /\ ~bpanic')
         => /\ heap'[owner[Len(owner) - 1]][stack[Top(starts)].k]
                 = ArrayNode(SubSeq(stack, Top(starts) + 2, Len(stack)))
            /\ OnlyObjectChanged(owner[Len(owner) - 1])
C1_KeyedEntryInFrameObject == [][C1_StoreStep]_vars

\* C2 as claimed: Object, Array and Value return an error exactly when the
\* call has no key inside an object frame or has a key inside an array frame.
C2_OriginalStep ==
    call'.op \in KeyedCalls =>
        (berr' # ErrNil <=> \/ (InObjectFrame /\ ~call'.hasKey)
                            \/ (InArrayFrame /\ call'.hasKey))
C2_KeyRuleOriginal == [][C2_OriginalStep]_vars

\* C2 as amended: Object, Array and Value return an error exactly when the
\* call has no key inside an object frame, or has a key and the innermost
\* open frame is not an object frame (an array frame, or no open frame).
C2_AmendedStep ==
    call'.op \in KeyedCalls =>
        /\ berr' # ErrNil <=> \/ (InObjectFrame /\ ~call'.hasKey)
                              \/ (~InObjectFrame /\ call'.hasKey)
        /\ ~bpanic'
C2_KeyRule == [][C2_AmendedStep]_vars
C2_Witness ==
    /\ call.op \in KeyedCalls /\ call.hasKey
    /\ berr = ErrKeyInArray
    /\ starts = <<>>

\* C3: no Builder call panics: a non-empty starts stack implies a non-empty
\* node stack, and every array marker is an index below the node stack length.
C3_NoPanic ==
    /\ ~bpanic
    /\ (starts # <<>> => stack # <<>>)
    /\ \A i \in 1..Len(starts) : 0 <= starts[i] => starts[i] < Len(stack)
C3_Witness ==
    /\ call.op = "Pop"
    /\ Len(starts) > 1
    /\ \E i \in 1..Len(starts) : 0 <= starts[i]
    /\ ncalls > 3

\* C11: when Pop (alone or from PopAll) closes an array frame, the Array
\* written at the marker slot holds exactly the nodes added directly to that
\* frame, each once and in the order they were added: nothing nested deeper
\* appears as an extra element and no element is lost.
C11_PopStep ==
    (call'.op \in {"Pop", "PopAll"} /\ ~bpanic') =>
        \A i \in (Len(starts') + 1)..Len(starts) :
            (0 <= starts[i] /\ starts[i] + 1 <= Len(stack'))
                => stack'[starts[i] + 1] = ArrayNode(Closed(kids, i))
C11_ArrayHoldsItsFrame == [][C11_PopStep]_vars

(***************************************************************************)
(* Package oj: the Writer.  Bytes are one-character strings and a buffer   *)
(* is a sequence of bytes.                                                 *)
(***************************************************************************)
RECURSIVE Digits(_)
Digits(n) == IF n < 10 THEN <<SubSeq(<<"0", "1", "2", "3", "4", "5", "6", "7", "8", "9">>, n + 1, n + 1)[1]>>
             ELSE Digits(n \div 10) \o Digits(n % 10)

RECURSIVE Zeros(_)
Zeros(n) == IF n <= 0 THEN <<>> ELSE <<"0">> \o Zeros(n - 1)

\* strconv.FormatInt(n, 10) and the %d verb of fmt.Sprintf
FormatInt(n) == IF n < 0 THEN <<"-">> \o Digits(-n) ELSE Digits(n)

\* The %09d verb of fmt.Sprintf: zero padding to width 9, the sign counted in the width.
Format09d(n) ==
    IF n < 0 THEN <<"-">> \o Zeros(8 - Len(Digits(-n))) \o Digits(-n)
    ELSE Zeros(9 - Len(Digits(n))) \o Digits(n)

\* Go's integer division truncates toward zero.
GoDiv(a, b) == IF a < 0 THEN -((-a) \div b) ELSE a \div b

Second == 1000000000

Min(a, b) == IF a < b THEN a ELSE b

NumSpaces == 128
NumTabs == 30
spaces == <<"\n">> \o [i \in 1..NumSpaces |-> " "]
tabs == <<"\n">> \o [i \in 1..NumTabs |-> "\t"]

\* Go's s[lo:hi] on a 0-based string
Slice(str, lo, hi) == SubSeq(str, lo + 1, hi)

NoPanic == "none"
SinkError == "sink write error"
EncodeError == "can not be encoded as a JSON element"
RuntimeError == "runtime error"

\* wr.buf = append(wr.buf, bytes...); nothing runs once a panic unwinds the encode.
Put(wr, bytes) == IF wr.panic # NoPanic THEN wr ELSE [wr EXCEPT !.buf = @ \o bytes]

\* ojg.AppendJSONString for a string without characters to escape
AppendJSONString(str) == <<"\"">> \o str \o <<"\"">>

\* is: the indent of the closing bracket, without the newline
IndentIs(wr, depth) ==
    IF wr.Tab THEN Slice(tabs, 1, Min(depth + 1, Len(tabs)))
    ELSE Slice(spaces, 1, Min(depth * wr.Indent + 1, Len(spaces)))

\* cs: newline and the indent of an entry
IndentCs(wr, depth) ==
    IF wr.Tab THEN Slice(tabs, 0, Min((depth + 1) + 1, Len(tabs)))
    ELSE Slice(spaces, 0, Min((depth + 1) * wr.Indent + 1, Len(spaces)))

\* wr.buf[len(wr.buf)-1] = '\n'
ReplaceLast(wr) ==
    IF wr.panic # NoPanic THEN wr
    ELSE IF Len(wr.buf) = 0 THEN [wr EXCEPT !.panic = RuntimeError]
    ELSE [wr EXCEPT !.buf[Len(wr.buf)] = "\n"]

\* The values of Options.TimeFormat: "", "nano", "second", or a time layout.
FormatDefault == <<>>
FormatNano == <<"n", "a", "n", "o">>
FormatSecond == <<"s", "e", "c", "o", "n", "d">>
FormatLiteral == <<"x">>

\* time.Time.Format for a layout without reference-time elements, such as
\* "x": the layout text is the result whatever the instant.
TimeFormatLayout(nano, layout) == layout

\* func (wr *Writer) appendTime(t time.Time), t given as t.UnixNano()
appendTime(wr, nano) ==
    LET w1 == IF wr.TimeMap
              THEN Put(wr, <<"{", "\"">> \o wr.CreateKey \o <<"\"", ":", "\"">>
                           \o (IF wr.FullTypePath THEN <<"t", "i", "m", "e", "/", "T", "i", "m", "e">>
                               ELSE <<"T", "i", "m", "e">>)
                           \o <<"\"", ",", "\"", "v", "a", "l", "u", "e", "\"", ":">>)
              ELSE IF 0 < Len(wr.TimeWrap)
                   THEN Put(wr, <<"{", "\"">> \o wr.TimeWrap \o <<"\"", ":">>)
                   ELSE wr
        secs == GoDiv(nano, Second)
        w2 == CASE wr.TimeFormat \in {FormatDefault, FormatNano} -> Put(w1, FormatInt(nano))
                [] wr.TimeFormat = FormatSecond ->
                     IF 0 < nano
                     THEN Put(w1, FormatInt(secs) \o <<".">> \o Format09d(nano - (secs * Second)))
                     ELSE Put(w1, FormatInt(secs) \o <<".">> \o Format09d(-(nano - (secs * Second))))
                [] OTHER -> Put(w1, <<"\"">> \o TimeFormatLayout(nano, wr.TimeFormat) \o <<"\"">>)
    IN IF 0 < Len(wr.TimeWrap) \/ wr.TimeMap THEN Put(w2, <<"}">>) ELSE w2

\* func (n Time) buildString(b *strings.Builder) of package gd, n given as
\* time.Time(n).UnixNano(); format and wrap are the package variables
\* gd.TimeFormat and gd.TimeWrap.
buildString(format, wrap, nano) ==
    LET open == IF 0 < Len(wrap) THEN <<"{", "\"">> \o wrap \o <<"\"", ":">> ELSE <<>>
        secs == GoDiv(nano, Second)
        text == CASE format \in {FormatDefault, FormatNano} -> FormatInt(nano)
                  [] format = FormatSecond ->
                       IF 0 < nano
                       THEN FormatInt(secs) \o <<".">> \o Format09d(nano - (secs * Second))
                       ELSE FormatInt(secs) \o <<".">> \o Format09d((-nano) - (secs * Second))
                  [] OTHER -> <<"\"">> \o TimeFormatLayout(nano, format) \o <<"\"">>
    IN open \o text \o (IF 0 < Len(wrap) THEN <<"}">> ELSE <<>>)

(***************************************************************************)
(* The values handed to the Writer, by Go dynamic type:                    *)
(*   nil, bool, int, str, time   the scalar cases of appendJSON            *)
(*   arr    []interface{}               e: the elements                    *)
(*   obj    map[string]interface{}      e: the entries, in the order the   *)
(*                                      Go runtime iterates the map        *)
(*   gen, simp   an alt.Genericer / alt.Simplifier; e[1]: what it          *)
(*               simplifies to                                             *)
(*   ptr    a pointer; n = 1: nil, else e[1]: what it points to            *)
(*   struct a struct; s: type name, e: the fields of its ojg.Struct        *)
(*   rslice a typed slice; n = 1: nil; e: the elements                     *)
(*   rmap   a typed map with string keys; n = 1: nil; e: the entries in    *)
(*          rv.MapKeys() order                                             *)
(*   chan   a value of a kind reflection does not emit; s: its %v text     *)
(***************************************************************************)
Val(k, n, str, e) == [k |-> k, n |-> n, s |-> str, e |-> e]
VNil == Val("nil", 0, <<>>, <<>>)
VInt(n) == Val("int", n, <<>>, <<>>)
VBool(b) == Val("bool", IF b THEN 1 ELSE 0, <<>>, <<>>)
VStr(str) == Val("str", 0, str, <<>>)
VTime(nano) == Val("time", nano, <<>>, <<>>)
VArr(elems) == Val("arr", 0, <<>>, elems)
VObj(entries) == Val("obj", 0, <<>>, entries)
VSimp(v) == Val("simp", 0, <<>>, <<v>>)
VGen(v) == Val("gen", 0, <<>>, <<v>>)
VPtr(v) == Val("ptr", 0, <<>>, <<v>>)
VNilPtr == Val("ptr", 1, <<>>, <<>>)
VStruct(name, fields) == Val("struct", 0, name, fields)
VSlice(elems) == Val("rslice", 0, <<>>, elems)
VNilSlice == Val("rslice", 1, <<>>, <<>>)
VMap(entries) == Val("rmap", 0, <<>>, entries)
VNilMap == Val("rmap", 1, <<>>, <<>>)
VChan == Val("chan", 0, <<"c">>, <<>>)
\* The zero reflect.Value that Elem() of a nil pointer returns
VInvalid == Val("invalid", 0, <<>>, <<>>)
Entry(key, v) == [key |-> key, val |-> v]
\* A struct field as its ojg.Field.Append behaves: mode "wrote" (key and
\* value appended), "none" (omitted, nothing appended) or "has" (key
\* appended, the value returned for the Writer to emit).
Field(key, mode, v) == [key |-> key, mode |-> mode, val |-> v]

\* The byte order of the map keys of the model, for sort.Strings and strings.Compare
KeyOrd(key) == CASE key = "a" -> 1 [] key = "b" -> 2 [] key = "c" -> 3 [] OTHER -> 4

\* strings.Compare
Compare(x, y) == IF KeyOrd(x) < KeyOrd(y) THEN -1 ELSE IF KeyOrd(x) = KeyOrd(y) THEN 0 ELSE 1

\* The less function of sort.Strings (appendSortObject, line 399)
LessStrings(x, y) == KeyOrd(x) < KeyOrd(y)

\* The less function handed to sort.Slice in appendMap (line 609)
LessMapKeys(x, y) == 0 < Compare(x, y)

\* sort.Strings / sort.Slice on entries with distinct keys; by names the less function.
RECURSIVE SortEntries(_, _)
SortEntries(entries, by) ==
    IF Len(entries) <= 1 THEN entries
    ELSE LET less(x, y) == IF by = "Strings" THEN LessStrings(x, y) ELSE LessMapKeys(x, y)
             rest == SortEntries(Tail(entries), by)
             x == Head(entries)
             before == SelectSeq(rest, LAMBDA y : less(y.key, x.key))
             after == SelectSeq(rest, LAMBDA y : ~less(y.key, x.key))
         IN before \o <<x>> \o after

\* reflect.Value.Kind() as the switches of appendDefault, appendStruct,
\* appendSlice and appendMap read it
Kind(v) == CASE v.k = "struct" -> "Struct"
             [] v.k \in {"rslice", "arr"} -> "Slice"
             [] v.k \in {"rmap", "obj"} -> "Map"
             [] v.k = "ptr" -> "Ptr"
             [] OTHER -> "Other"
IsNil(v) == v.n = 1

\* The io.Writer behind wr.w: its failAt-th Write returns an error.
SinkWrite(wr) ==
    IF wr.sink.calls + 1 = wr.sink.failAt
    THEN [wr EXCEPT !.sink.calls = @ + 1, !.panic = SinkError]
    ELSE [wr EXCEPT !.sink.calls = @ + 1, !.sink.chunks = Append(@, wr.buf)]

\* Lines 193-198 of appendJSON: hand the buffer to the sink once it is
\* longer than WriteLimit.
FlushKeepsBuffer(wr) ==
    IF wr.panic = NoPanic /\ wr.w /\ wr.WriteLimit < Len(wr.buf) THEN SinkWrite(wr) ELSE wr
Flush(wr) ==
    IF wr.panic = NoPanic /\ wr.w /\ wr.WriteLimit < Len(wr.buf)
    THEN LET w1 == SinkWrite(wr)
         IN IF w1.panic # NoPanic THEN w1 ELSE [w1 EXCEPT !.buf = <<>>]
    ELSE wr

\* ojg.Converter: the Nano converter, integers become instants.
RECURSIVE Convert(_)
Convert(v) ==
    CASE v.k = "int" -> VTime(v.n)
      [] v.k = "arr" -> VArr([i \in 1..Len(v.e) |-> Convert(v.e[i])])
      [] v.k = "obj" -> VObj([i \in 1..Len(v.e) |-> Entry(v.e[i].key, Convert(v.e[i].val))])
      [] OTHER -> v

\* alt.decompose: reduction to the simple subset
RECURSIVE decompose(_, _)
decompose(v, opt) ==
    LET kept(entries) == SelectSeq(entries, LAMBDA en : ~(opt.OmitNil /\ en.val.k = "nil"))
        each(entries) == [i \in 1..Len(entries) |-> Entry(entries[i].key, decompose(entries[i].val, opt))]
    IN CASE v.k \in {"nil", "bool", "int", "str", "time"} -> v
         [] v.k \in {"arr", "rslice"} -> VArr([i \in 1..Len(v.e) |-> decompose(v.e[i], opt)])
         [] v.k \in {"obj", "rmap"} -> VObj(kept(each(v.e)))
         [] v.k \in {"gen", "simp"} -> decompose(v.e[1], opt)
         [] v.k = "ptr" -> IF IsNil(v) THEN VNil ELSE decompose(v.e[1], opt)
         [] v.k = "struct" ->
              VObj((IF 0 < Len(opt.CreateKey) THEN <<Entry("type", VStr(v.s))>> ELSE <<>>)
                   \o kept(each(SelectSeq(v.e, LAMBDA f : f.mode # "none"))))
         [] OTHER -> VStr(v.s)

\* func Decompose(v interface{}, options ...*ojg.Options) interface{}
\* Returns the value and the Options with the Convert calls logged.
Decompose(v, opt) ==
    IF opt.Converter
    THEN [v |-> decompose(Convert(v), opt), convs |-> Append(opt.convs, v)]
    ELSE [v |-> decompose(v, opt), convs |-> opt.convs]

\* func Alter(v interface{}, options ...*ojg.Options) interface{}
AlterV(v, opt) ==
    IF opt.Converter
    THEN [v |-> decompose(Convert(v), opt), convs |-> Append(opt.convs, v)]
    ELSE [v |-> decompose(v, opt), convs |-> opt.convs]

\* The reflect.Kind of an element: what a []interface{} or a
\* map[string]interface{} holds has Kind Interface whatever its dynamic type.
ElemKind(container, v) == IF container.k \in {"arr", "obj"} THEN "Other" ELSE Kind(v)

\* rv.Elem()
Elem(v) == IF IsNil(v) THEN VInvalid ELSE v.e[1]

Loop(wr, empty, indented) == [wr |-> wr, empty |-> empty, indented |-> indented]

\* A call of one of the emitters by name, as the Writer makes it through its
\* function table (wr.appendArray, wr.appendObject, wr.appendDefault) or
\* directly.
RECURSIVE Emit(_, _, _, _)
RECURSIVE ArrayLoop(_, _, _, _)
RECURSIVE ObjectLoop(_, _, _, _, _)
RECURSIVE StructLoop(_, _, _, _, _, _)
RECURSIVE SliceLoop(_, _, _, _, _)
RECURSIVE MapLoop(_, _, _, _, _, _)

\* rm.Interface() handed to appendJSON; Interface() of the zero Value panics.
appendInterface(wr, rm, depth) ==
    IF wr.panic # NoPanic THEN wr
    ELSE IF rm.k = "invalid" THEN [wr EXCEPT !.panic = RuntimeError]
    ELSE Emit("appendJSON", wr, rm, depth)

\* The switch on the reflect.Kind in appendStruct, appendSlice and appendMap
appendKind(wr, kind, rm, depth) ==
    CASE kind = "Struct" -> Emit("appendStruct", wr, rm, depth)
      [] kind = "Slice" -> Emit("appendSlice", wr, rm, depth)
      [] kind = "Map" -> Emit("appendMap", wr, rm, depth)
      [] OTHER -> appendInterface(wr, rm, depth)

\* func (wr *Writer) appendJSON(data interface{}, depth int)
appendJSON(wr, data, depth) ==
    IF wr.panic # NoPanic THEN wr
    ELSE LET w1 ==
               CASE data.k = "nil" -> Put(wr, <<"n", "u", "l", "l">>)
                 [] data.k = "bool" -> IF data.n = 1 THEN Put(wr, <<"t", "r", "u", "e">>)
                                       ELSE Put(wr, <<"f", "a", "l", "s", "e">>)
                 [] data.k = "int" -> Put(wr, FormatInt(data.n))
                 [] data.k = "str" -> Put(wr, AppendJSONString(data.s))
                 [] data.k = "time" -> appendTime(wr, data.n)
                 [] data.k = "arr" -> Emit(wr.appendArray, wr, data, depth)
                 [] data.k = "obj" -> Emit(wr.appendObject, wr, data, depth)
                 [] OTHER -> Emit(wr.appendDefault, wr, data, depth)
         IN Flush(w1)

\* Lines 228-229: dec := alt.Decompose(data, &wr.Options); wr.appendJSON(dec, depth)
appendDecomposed(wr, dec, depth) ==
    Emit("appendJSON", [wr EXCEPT !.convs = dec.convs], dec.v, depth)

\* func appendDefault(wr *Writer, data interface{}, depth int)
appendDefault(wr, data, depth) ==
    IF data.k = "gen" THEN Emit("appendJSON", wr, data.e[1], depth)
    ELSE IF data.k = "simp" THEN Emit("appendJSON", wr, data.e[1], depth)
    ELSE IF ~wr.NoReflect
    THEN LET rv == IF Kind(data) = "Ptr" THEN Elem(data) ELSE data
         IN IF Kind(rv) \in {"Struct", "Slice", "Map"}
            THEN appendKind(wr, Kind(rv), rv, depth)
            ELSE appendDecomposed(wr, Decompose(data, wr), depth)
    ELSE IF wr.strict THEN [wr EXCEPT !.panic = EncodeError]
    ELSE Put(wr, AppendJSONString(data.s))

\* The loop of appendArray, lines 307-311
ArrayLoop(wr, n, i, depth) ==
    IF i > Len(n.e) \/ wr.panic # NoPanic THEN wr
    ELSE LET w1 == Put(wr, IndentCs(wr, depth))
             w2 == Emit("appendJSON", w1, n.e[i], depth + 1)
         IN ArrayLoop(Put(w2, <<",">>), n, i + 1, depth)

\* func appendArray(wr *Writer, n []interface{}, depth int)
appendArray(wr, n, depth) ==
    IF 0 < Len(n.e)
    THEN LET w1 == ArrayLoop(Put(wr, <<"[">>), n, 1, depth)
         IN Put(Put(ReplaceLast(w1), IndentIs(wr, depth)), <<"]">>)
    ELSE Put(wr, <<"[", "]">>)

\* The loop of appendObject (lines 349-360) and of appendSortObject (lines 402-414)
ObjectLoop(wr, entries, i, depth, empty) ==
    IF i > Len(entries) \/ wr.panic # NoPanic THEN Loop(wr, empty, FALSE)
    ELSE IF entries[i].val.k = "nil" /\ wr.OmitNil
    THEN ObjectLoop(wr, entries, i + 1, depth, empty)
    ELSE LET w1 == Put(wr, IndentCs(wr, depth) \o AppendJSONString(<<entries[i].key>>) \o <<":", " ">>)
             w2 == Emit("appendJSON", w1, entries[i].val, depth + 1)
         IN ObjectLoop(Put(w2, <<",">>), entries, i + 1, depth, FALSE)

\* Lines 361-365, 415-419, 520-524, 573-577 and 649-653: close the brackets
Close(l, depth, bracket) ==
    Put(IF ~l.empty THEN Put(ReplaceLast(l.wr), IndentIs(l.wr, depth)) ELSE l.wr, <<bracket>>)

\* func appendObject(wr *Writer, n map[string]interface{}, depth int)
appendObject(wr, n, depth) ==
    Close(ObjectLoop(Put(wr, <<"{">>), n.e, 1, depth, TRUE), depth, "}")

\* func appendSortObject(wr *Writer, n map[string]interface{}, depth int)
appendSortObject(wr, n, depth) ==
    Close(ObjectLoop(Put(wr, <<"{">>), SortEntries(n.e, "Strings"), 1, depth, TRUE), depth, "}")

\* What the Append function of a primitive field writes after the key
FieldBytes(v) ==
    CASE v.k = "int" -> FormatInt(v.n)
      [] v.k = "str" -> AppendJSONString(v.s)
      [] v.k = "bool" -> IF v.n = 1 THEN <<"t", "r", "u", "e">> ELSE <<"f", "a", "l", "s", "e">>
      [] OTHER -> <<"n", "u", "l", "l">>

\* The loop of appendStruct over the fields, lines 472-516
StructLoop(wr, fields, i, depth, empty, indented) ==
    IF i > Len(fields) \/ wr.panic # NoPanic THEN Loop(wr, empty, indented)
    ELSE LET fi == fields[i]
             w1 == IF ~indented THEN Put(wr, IndentCs(wr, depth)) ELSE wr
             key == AppendJSONString(<<fi.key>>) \o <<":", " ">>
         IN CASE fi.mode = "wrote" ->
                   StructLoop(Put(w1, key \o FieldBytes(fi.val) \o <<",">>),
                              fields, i + 1, depth, FALSE, FALSE)
              [] fi.mode = "none" -> StructLoop(w1, fields, i + 1, depth, empty, TRUE)
              [] OTHER ->
                   LET w2 == Put(w1, key)
                       fv == IF Kind(fi.val) = "Ptr" THEN Elem(fi.val) ELSE fi.val
                       w3 == appendKind(w2, Kind(fv), fv, depth + 1)
                   IN StructLoop(Put(w3, <<",">>), fields, i + 1, depth, FALSE, FALSE)

\* Lines 517-519: take back the indent appended for a field that was omitted
Unindent(l, cs) ==
    IF l.indented /\ l.wr.panic = NoPanic
    THEN IF Len(l.wr.buf) < Len(cs) THEN Loop([l.wr EXCEPT !.panic = RuntimeError], l.empty, FALSE)
         ELSE Loop([l.wr EXCEPT !.buf = SubSeq(@, 1, Len(@) - Len(cs))], l.empty, FALSE)
    ELSE Loop(l.wr, l.empty, FALSE)

\* func (wr *Writer) appendStruct(rv reflect.Value, depth int, st *ojg.Struct)
appendStruct(wr, rv, depth) ==
    LET cs == IndentCs(wr, depth)
        w1 == Put(wr, <<"{">>)
        tagged == 0 < Len(wr.CreateKey)
        w2 == IF tagged
              THEN Put(w1, cs \o <<"\"">> \o wr.CreateKey \o <<"\"", ":", " ", "\"">>
                           \o (IF wr.FullTypePath THEN <<"p", "/">> \o rv.s ELSE rv.s)
                           \o <<"\"", ",">>)
              ELSE w1
    IN Close(Unindent(StructLoop(w2, rv.e, 1, depth, ~tagged, FALSE), cs), depth, "}")

\* The loop of appendSlice, lines 557-572
SliceLoop(wr, rv, j, depth, empty) ==
    IF j > Len(rv.e) \/ wr.panic # NoPanic THEN Loop(wr, empty, FALSE)
    ELSE LET w1 == Put(wr, IndentCs(wr, depth))
             w2 == appendKind(w1, ElemKind(rv, rv.e[j]), rv.e[j], depth + 1)
         IN SliceLoop(Put(w2, <<",">>), rv, j + 1, depth, FALSE)

\* func (wr *Writer) appendSlice(rv reflect.Value, depth int, st *ojg.Struct)
appendSlice(wr, rv, depth) ==
    Close(SliceLoop(Put(wr, <<"[">>), rv, 1, depth, TRUE), depth, "]")

\* The loop of appendMap over the keys, lines 613-648
MapLoop(wr, rv, keys, i, depth, empty) ==
    IF i > Len(keys) \/ wr.panic # NoPanic THEN Loop(wr, empty, FALSE)
    ELSE LET kv == keys[i].key
             rm0 == keys[i].val
             isPtr == ElemKind(rv, rm0) = "Ptr"
             rm == IF isPtr THEN Elem(rm0) ELSE rm0
             kind == IF isPtr THEN Kind(rm) ELSE ElemKind(rv, rm0)
             w1 == Put(wr, IndentCs(wr, depth))
             key == AppendJSONString(<<kv>>) \o <<":", " ">>
         IN IF isPtr /\ wr.OmitNil /\ IsNil(rm0)
            THEN MapLoop(wr, rv, keys, i + 1, depth, empty)
            ELSE IF kind \in {"Slice", "Map"} /\ wr.OmitNil /\ IsNil(rm)
            THEN MapLoop(w1, rv, keys, i + 1, depth, empty)
            ELSE LET w2 == appendKind(Put(w1, key), kind, rm, depth + 1)
                 IN MapLoop(Put(w2, <<",">>), rv, keys, i + 1, depth, FALSE)

\* func (wr *Writer) appendMap(rv reflect.Value, depth int, st *ojg.Struct)
appendMap(wr, rv, depth) ==
    LET keys == IF wr.Sort THEN SortEntries(rv.e, "MapKeys") ELSE rv.e
    IN Close(MapLoop(Put(wr, <<"{">>), rv, keys, 1, depth, TRUE), depth, "}")

\* The emitters by name: the values of the function table and the direct calls
Emit(fn, wr, data, depth) ==
    CASE fn = "appendJSON" -> appendJSON(wr, data, depth)
      [] fn = "appendArray" -> appendArray(wr, data, depth)
      [] fn = "appendObject" -> appendObject(wr, data, depth)
      [] fn = "appendSortObject" -> appendSortObject(wr, data, depth)
      [] fn = "appendDefault" -> appendDefault(wr, data, depth)
      [] fn = "appendStruct" -> appendStruct(wr, data, depth)
      [] fn = "appendSlice" -> appendSlice(wr, data, depth)
      [] fn = "appendMap" -> appendMap(wr, data, depth)

(***************************************************************************)
(* The public operations of the Writer.  Only the indented emitters        *)
(* (appendArray, appendObject, appendSortObject, appendDefault) are part   *)
(* of the sources, so the Writer is driven with Tab set or Indent > 0.     *)
(***************************************************************************)
DefaultInitSize == 256
DefaultWriteLimit == 1024

NoSink == [calls |-> 0, failAt |-> 0, chunks |-> <<>>]
NewSink(failAt) == [calls |-> 0, failAt |-> failAt, chunks |-> <<>>]

\* Lines 50-57 and 101-111: the defaults and the reset of the buffer
PrepareKeepsLimit(w, limit) ==
    [w EXCEPT !.InitSize = IF @ <= 0 THEN DefaultInitSize ELSE @,
              !.buf = <<>>]
Prepare(w, limit) ==
    [w EXCEPT !.InitSize = IF @ <= 0 THEN DefaultInitSize ELSE @,
              !.WriteLimit = IF limit /\ @ <= 0 THEN DefaultWriteLimit ELSE @,
              !.buf = <<>>]

\* Lines 61-77 of MustJSON: the function table
TableJSON(w) ==
    IF w.Tab \/ 0 < w.Indent
    THEN [w EXCEPT !.appendArray = "appendArray",
                   !.appendObject = IF w.Sort THEN "appendSortObject" ELSE "appendObject",
                   !.appendDefault = "appendDefault"]
    ELSE [w EXCEPT !.appendArray = "tightArray",
                   !.appendObject = IF w.Sort THEN "tightSortObject" ELSE "tightObject",
                   !.appendDefault = "tightDefault"]

\* Lines 118-126 of MustWrite: the function table
TableWrite(w) ==
    IF w.Tab \/ 0 < w.Indent
    THEN [w EXCEPT !.appendArray = "appendArray",
                   !.appendObject = "appendObject",
                   !.appendDefault = "appendDefault"]
    ELSE [w EXCEPT !.appendArray = "tightArray",
                   !.appendObject = "tightObject",
                   !.appendDefault = "tightDefault"]

\* func (wr *Writer) MustJSON(data interface{}) []byte
MustJSONOp(w, v) ==
    appendJSON(TableJSON(Prepare([w EXCEPT !.w = FALSE, !.panic = NoPanic, !.convs = <<>>], FALSE)), v, 0)

\* The deferred function of JSON, lines 38-42
RecoverJSON(r) ==
    IF r.panic # NoPanic THEN [r EXCEPT !.buf = <<>>, !.panic = NoPanic, !.recovered = r.panic]
    ELSE r

\* func (wr *Writer) JSON(data interface{}) string
JSONOp(w, v) == RecoverJSON(MustJSONOp(w, v))

\* Lines 129-133 of MustWrite: the final write
FinalWrite(w) ==
    IF w.panic = NoPanic /\ 0 < Len(w.buf) THEN SinkWrite(w) ELSE w

\* func (wr *Writer) MustWrite(w io.Writer, data interface{})
MustWriteOp(w, failAt, v) ==
    FinalWrite(appendJSON(TableWrite(Prepare([w EXCEPT !.w = TRUE, !.sink = NewSink(failAt),
                                                       !.panic = NoPanic, !.convs = <<>>], TRUE)), v, 0))

\* The deferred function of Write, lines 85-92
RecoverIgnores(r) == [r EXCEPT !.buf = <<>>, !.panic = NoPanic, !.recovered = NoPanic]
Recover(r) ==
    IF r.panic # NoPanic THEN [r EXCEPT !.buf = <<>>, !.panic = NoPanic, !.recovered = r.panic]
    ELSE r

\* func (wr *Writer) Write(w io.Writer, data interface{}) (err error)
WriteOp(w, failAt, v) == Recover(MustWriteOp(w, failAt, v))

(***************************************************************************)
(* The Writer as a state machine.  wr holds the fields of the Writer;      *)
(* during a call the record also carries the panic in flight, the sink and *)
(* the log of Convert calls.                                               *)
(***************************************************************************)
WriterOf(r) ==
    [Tab |-> r.Tab, Indent |-> r.Indent, Sort |-> r.Sort, OmitNil |-> r.OmitNil,
     NoReflect |-> r.NoReflect, TimeFormat |-> r.TimeFormat, TimeWrap |-> r.TimeWrap,
     TimeMap |-> r.TimeMap, CreateKey |-> r.CreateKey, FullTypePath |-> r.FullTypePath,
     Converter |-> r.Converter, InitSize |-> r.InitSize, WriteLimit |-> r.WriteLimit,
     buf |-> r.buf, w |-> r.w, strict |-> r.strict, appendArray |-> r.appendArray,
     appendObject |-> r.appendObject, appendDefault |-> r.appendDefault]

Running(w) ==
    [Tab |-> w.Tab, Indent |-> w.Indent, Sort |-> w.Sort, OmitNil |-> w.OmitNil,
     NoReflect |-> w.NoReflect, TimeFormat |-> w.TimeFormat, TimeWrap |-> w.TimeWrap,
     TimeMap |-> w.TimeMap, CreateKey |-> w.CreateKey, FullTypePath |-> w.FullTypePath,
     Converter |-> w.Converter, InitSize |-> w.InitSize, WriteLimit |-> w.WriteLimit,
     buf |-> w.buf, w |-> w.w, strict |-> w.strict, appendArray |-> w.appendArray,
     appendObject |-> w.appendObject, appendDefault |-> w.appendDefault,
     panic |-> NoPanic, recovered |-> NoPanic, sink |-> NoSink, convs |-> <<>>]

\* ojg.Options, with the defaults of the zero value
DefaultOptions ==
    [Tab |-> FALSE, Indent |-> 0, Sort |-> FALSE, OmitNil |-> FALSE, NoReflect |-> FALSE,
     TimeFormat |-> FormatDefault, TimeWrap |-> <<>>, TimeMap |-> FALSE, CreateKey |-> <<>>,
     FullTypePath |-> FALSE, Converter |-> FALSE, InitSize |-> 0, WriteLimit |-> 0]

\* A Writer with the given Options; stale is what an earlier call left in the buffer.
NewWriter(o, strict, stale) ==
    [Tab |-> o.Tab, Indent |-> o.Indent, Sort |-> o.Sort, OmitNil |-> o.OmitNil,
     NoReflect |-> o.NoReflect, TimeFormat |-> o.TimeFormat, TimeWrap |-> o.TimeWrap,
     TimeMap |-> o.TimeMap, CreateKey |-> o.CreateKey, FullTypePath |-> o.FullTypePath,
     Converter |-> o.Converter, InitSize |-> o.InitSize, WriteLimit |-> o.WriteLimit,
     buf |-> stale, w |-> FALSE, strict |-> strict, appendArray |-> "",
     appendObject |-> "", appendDefault |-> ""]

NoRet == [op |-> "none", out |-> <<>>, err |-> NoPanic, panic |-> NoPanic]
Ret(op, out, err, panic) == [op |-> op, out |-> out, err |-> err, panic |-> panic]

Indented == writer.Tab \/ 0 < writer.Indent

\* Every call resets what an earlier call left in the Writer (the buffer, the
\* sink, the function table), so a behaviour is one call, on a new Writer
\* (InitValues, InitTimes) or on a used one (InitReused).
FirstCall == ret.op = "none"

T1 == <<"T">>
Values ==
    { VNil, VInt(12), VStr(<<"h", "i">>), VBool(TRUE), VTime(1500000000), VChan,
      VArr(<<>>), VArr(<<VInt(1), VNil>>), VArr(<<VObj(<<Entry("a", VInt(1))>>), VInt(2)>>),
      VArr(<<VInt(1), VChan>>),
      VObj(<<>>), VObj(<<Entry("a", VInt(1)), Entry("b", VInt(2))>>),
      VObj(<<Entry("b", VInt(2)), Entry("a", VInt(1))>>),
      VObj(<<Entry("a", VNil)>>), VObj(<<Entry("a", VNil), Entry("b", VInt(1))>>),
      VObj(<<Entry("b", VInt(1)), Entry("a", VNil)>>),
      VObj(<<Entry("a", VArr(<<VInt(1), VInt(2)>>)), Entry("b", VChan)>>),
      VMap(<<>>), VNilMap, VMap(<<Entry("a", VInt(1)), Entry("b", VInt(2))>>),
      VMap(<<Entry("b", VInt(2)), Entry("a", VInt(1))>>),
      VMap(<<Entry("a", VNilSlice)>>), VMap(<<Entry("a", VNilMap)>>), VMap(<<Entry("a", VNilPtr)>>),
      VMap(<<Entry("a", VNilSlice), Entry("b", VSlice(<<VInt(1)>>))>>),
      VMap(<<Entry("b", VSlice(<<VInt(1)>>)), Entry("a", VNilSlice)>>),
      VMap(<<Entry("a", VNilPtr), Entry("b", VPtr(VStruct(T1, <<Field("x", "wrote", VInt(1))>>)))>>),
      VSlice(<<>>), VNilSlice, VSlice(<<VInt(1), VInt(2)>>),
      VSlice(<<VStruct(T1, <<Field("x", "wrote", VInt(1))>>), VStruct(T1, <<Field("x", "none", VNil)>>)>>),
      VStruct(T1, <<Field("x", "none", VNil), Field("y", "none", VNil)>>),
      VStruct(T1, <<Field("x", "wrote", VInt(1)), Field("y", "none", VNil)>>),
      VStruct(T1, <<Field("x", "none", VNil), Field("y", "has", VSlice(<<VInt(1)>>))>>),
      VStruct(T1, <<Field("x", "has", VMap(<<Entry("a", VInt(1))>>)), Field("y", "wrote", VStr(<<"s">>))>>),
      VPtr(VStruct(T1, <<Field("x", "wrote", VInt(1))>>)), VNilPtr,
      VSimp(VObj(<<Entry("b", VInt(1)), Entry("a", VInt(2))>>)), VGen(VArr(<<VInt(1)>>)) }

WriteLimits == {0, 1, MaxWriteLimit}
CreateKeys == {<<>>, <<"t">>}

StaleBuffers == {<<"[", "]">>, <<"\"", "h", "i", "\"">>}
TimeFormats == {FormatDefault, FormatNano, FormatSecond, FormatLiteral}
Instants == {tenth * (Second \div 10) + d : tenth \in (-MaxTenths)..MaxTenths, d \in {-1, 0, 1}}

\* A new Writer with any options, handed one of Values.  Tab takes
\* precedence over Indent, and strict is only read under NoReflect
\* (appendDefault), so these are not varied independently.
InitValues ==
    /\ \E tab \in BOOLEAN, indent \in 0..MaxIndent, sort \in BOOLEAN, omitNil \in BOOLEAN,
          noReflect \in BOOLEAN, strict \in BOOLEAN, limit \in WriteLimits,
          createKey \in CreateKeys, converter \in BOOLEAN :
         /\ tab # (0 < indent)
         /\ strict => noReflect
         /\ writer = NewWriter([DefaultOptions EXCEPT !.Tab = tab, !.Indent = indent, !.Sort = sort,
                                    !.OmitNil = omitNil, !.NoReflect = noReflect, !.WriteLimit = limit,
                                    !.CreateKey = createKey, !.Converter = converter], strict, <<>>)
    /\ input \in Values

\* A Writer used before, the output of the earlier call still in its buffer
InitReused ==
    /\ \E stale \in StaleBuffers, limit \in WriteLimits :
         writer = NewWriter([DefaultOptions EXCEPT !.Tab = TRUE, !.WriteLimit = limit], FALSE, stale)
    /\ input \in Values

\* A Writer with any time options, handed an instant.  FullTypePath and
\* CreateKey are only read under TimeMap.
InitTimes ==
    /\ \E format \in TimeFormats, wrap \in {<<>>, <<"@">>}, timeMap \in BOOLEAN,
          full \in BOOLEAN, createKey \in CreateKeys :
         /\ timeMap \/ (~full /\ createKey = <<>>)
         /\ writer = NewWriter([DefaultOptions EXCEPT !.Tab = TRUE, !.TimeFormat = format, !.TimeWrap = wrap,
                                    !.TimeMap = timeMap, !.FullTypePath = full,
                                    !.CreateKey = createKey], FALSE, <<>>)
    /\ input \in {VTime(nano) : nano \in Instants}

WInit ==
    /\ InitValues \/ InitReused \/ InitTimes
    /\ sink = NoSink
    /\ convs = <<>>
    /\ ret = NoRet

WIdle ==
    /\ writer = NewWriter(DefaultOptions, FALSE, <<>>)
    /\ input = VNil
    /\ sink = NoSink
    /\ convs = <<>>
    /\ ret = NoRet

\* What the caller receives: JSON and MustJSON return the buffer (MustJSON
\* nothing when it panics), Write returns the error it recovered.
Return(r, op) ==
    /\ writer' = WriterOf(r)
    /\ sink' = r.sink
    /\ convs' = r.convs
    /\ ret' = Ret(op, IF op \in {"JSON", "MustJSON"} /\ r.panic = NoPanic THEN r.buf ELSE <<>>,
                  r.recovered, r.panic)
    /\ UNCHANGED <<input, bvars>>

JSON ==
    /\ FirstCall
    /\ Indented
    /\ Return(JSONOp(Running(writer), input), "JSON")

MustJSON ==
    /\ FirstCall
    /\ Indented
    /\ Return(MustJSONOp(Running(writer), input), "MustJSON")

Write ==
    /\ FirstCall
    /\ Indented
    /\ \E failAt \in 0..MaxFail : Return(WriteOp(Running(writer), failAt, input), "Write")

MustWrite ==
    /\ FirstCall
    /\ Indented
    /\ \E failAt \in 0..MaxFail : Return(MustWriteOp(Running(writer), failAt, input), "MustWrite")

\* What Decompose and Alter return, and the Convert calls they made
Converted(d, op) ==
    /\ convs' = d.convs
    /\ ret' = Ret(op, <<d.v>>, NoPanic, NoPanic)
    /\ UNCHANGED <<writer, input, sink, bvars>>

\* alt.Decompose and alt.Alter called with the Options of the Writer
DecomposeCall ==
    /\ FirstCall
    /\ Converted(Decompose(input, Running(writer)), "Decompose")

AlterCall ==
    /\ FirstCall
    /\ Converted(AlterV(input, Running(writer)), "Alter")

\* gd.Time(t).String() for the instant in input, with the package variables
\* gd.TimeFormat and gd.TimeWrap holding what the Writer has as options
String ==
    /\ FirstCall
    /\ input.k = "time"
    /\ ret' = Ret("String", buildString(writer.TimeFormat, writer.TimeWrap, input.n), NoPanic, NoPanic)
    /\ UNCHANGED <<writer, input, sink, convs, bvars>>

WNext == JSON \/ MustJSON \/ Write \/ MustWrite \/ DecomposeCall \/ AlterCall \/ String

(***************************************************************************)
(* Properties of the Writer.  They are stated on the state a call leaves:  *)
(* ret is what the caller got back, sink what the io.Writer received,      *)
(* convs the values Convert was called with, writer the Writer itself.     *)
(***************************************************************************)
EncodeOps == {"JSON", "MustJSON", "Write", "MustWrite"}
StreamOps == {"Write", "MustWrite"}

\* The call returned normally and without an error value
Succeeded == ret.op # "none" /\ ret.err = NoPanic /\ ret.panic = NoPanic

RECURSIVE Concat(_)
Concat(chunks) == IF chunks = <<>> THEN <<>> ELSE Head(chunks) \o Concat(Tail(chunks))

IsPrefix(s, t) == Len(s) <= Len(t) /\ SubSeq(t, 1, Len(s)) = s

\* The JSON the caller receives: the returned bytes, or what the sink was handed
Output == IF ret.op \in StreamOps THEN Concat(sink.chunks) ELSE ret.out

Abs(n) == IF n < 0 THEN -n ELSE n

\* The decimal text of nano / 10^9 with nine fractional digits
SecondText(nano) ==
    (IF nano < 0 THEN <<"-">> ELSE <<>>)
        \o FormatInt(Abs(nano) \div Second) \o <<".">> \o Format09d(Abs(nano) % Second)

BareSecondTime ==
    /\ ret.op \in EncodeOps
    /\ input.k = "time"
    /\ writer.TimeFormat = FormatSecond
    /\ writer.TimeWrap = <<>>
    /\ ~writer.TimeMap

\* C4: with TimeFormat "second" the Writer emits, for every instant n, the
\* correctly signed decimal of n / 10^9: a '-' whenever n < 0, the integer
\* part |n| div 10^9, a '.', and the nine digits of |n| mod 10^9.
C4_SecondFormat == (BareSecondTime /\ Succeeded) => Output = SecondText(input.n)

\* The text the Writer appends for the instant, with the same format and wrap
WriterTime(nano) == appendTime([Running(writer) EXCEPT !.buf = <<>>], nano).buf

SecondString ==
    /\ ret.op = "String"
    /\ writer.TimeFormat = FormatSecond
    /\ ~writer.TimeMap

\* C12: with gd.TimeFormat "second", gd.Time.String gives for every instant
\* n, also for n <= -10^9, the integer seconds, a '.', and exactly nine
\* digits equal to |n| mod 10^9; it is the text the Writer produces for the
\* same instant with TimeFormat "second".
C12_StringSecond ==
    (SecondString /\ writer.TimeWrap = <<>>) =>
        /\ ret.out = FormatInt(GoDiv(input.n, Second)) \o <<".">>
                          \o Zeros(9 - Len(Digits(Abs(input.n) % Second)))
                          \o Digits(Abs(input.n) % Second)
        /\ ret.out = WriterTime(input.n)

\* The keys of the entries found in a JSON text, in the order they appear
\* (every key of the inputs is a single byte)
KeysOf(out) ==
    LET at(i) == /\ 1 < i
                 /\ i + 2 <= Len(out)
                 /\ out[i - 1] = "\""
                 /\ out[i + 1] = "\""
                 /\ out[i + 2] = ":"
        RECURSIVE from(_)
        from(i) == IF Len(out) < i THEN <<>>
                   ELSE IF at(i) THEN <<out[i]>> \o from(i + 1) ELSE from(i + 1)
    IN from(1)

Ascending(keys) == \A i \in 1..(Len(keys) - 1) : KeyOrd(keys[i]) < KeyOrd(keys[i + 1])

\* A mapping none of whose entries holds an object of its own
FlatMapping(v) ==
    /\ v.k \in {"obj", "rmap"}
    /\ \A i \in 1..Len(v.e) : v.e[i].val.k \in {"nil", "int", "bool", "str", "arr", "rslice", "chan"}

\* C5: with Sort set, JSON, MustJSON, Write and MustWrite all emit the
\* entries of a string-keyed mapping in strictly ascending order of the
\* keys, for map[string]interface{} and for reflective maps alike.
C5_SortedKeys ==
    (ret.op \in EncodeOps /\ Succeeded /\ writer.Sort /\ FlatMapping(input))
        => Ascending(KeysOf(Output))

\* The same encode with no sink: the complete output, never flushed
Complete == appendJSON([Running(writer) EXCEPT !.w = FALSE, !.buf = <<>>], input, 0)

\* C6: in a streaming encode, whatever the WriteLimit, the chunks handed to
\* the sink, concatenated in delivery order, are after every delivery a
\* prefix of the complete output of the encode, and are the complete output
\* when the call returns successfully.
C6_SinkPrefix ==
    ret.op \in StreamOps =>
        /\ \A k \in 0..Len(sink.chunks) : IsPrefix(Concat(SubSeq(sink.chunks, 1, k)), Complete.buf)
        /\ Succeeded => (Complete.panic = NoPanic /\ Concat(sink.chunks) = Complete.buf)

\* A successful streaming encode delivered in three chunks or more, the
\* closing of an array or object among them
C6_Witness ==
    /\ ret.op \in StreamOps
    /\ Succeeded
    /\ 3 <= Len(sink.chunks)
    /\ input.k \in {"arr", "obj", "rmap", "struct"}

\* A write of the sink returned an error during the call
SinkFailed == 0 < sink.failAt /\ sink.failAt <= sink.calls

\* C7: when a write of the sink returns an error during Write, the encode
\* stops there: no further write is attempted, Write does not panic, and
\* Write returns the error of the sink.
C7_SinkErrorStops ==
    (ret.op = "Write" /\ SinkFailed) =>
        /\ sink.calls = sink.failAt
        /\ ret.panic = NoPanic
        /\ ret.err = SinkError

\* Write whose second write to the sink failed, with entries still to emit
C7_Witness ==
    /\ ret.op = "Write"
    /\ sink.failAt = 2
    /\ sink.calls = 2
    /\ Len(sink.chunks) = 1
    /\ ret.err = SinkError
    /\ Len(Concat(sink.chunks)) < Len(Complete.buf)

\* The encode failed on an unencodable value or on a failing sink
EncodeFailed ==
    /\ ret.op \in EncodeOps
    /\ \/ ret.err \in {EncodeError, SinkError}
       \/ ret.panic \in {EncodeError, SinkError}

\* C8: whenever an encode fails, the buffer of the Writer has length zero
\* once the caller has control again, for JSON, Write, MustJSON and
\* MustWrite alike.
C8_BufferEmptyOnError == EncodeFailed => Len(writer.buf) = 0

\* No entry of the root value is emitted: it is empty, or OmitNil is set and
\* every entry is nil (typed maps, slices and structs are emitted entry by
\* entry only without NoReflect)
NoneEmitted ==
    CASE input.k = "obj" -> \A i \in 1..Len(input.e) : writer.OmitNil /\ input.e[i].val.k = "nil"
      [] input.k = "arr" -> Len(input.e) = 0
      [] input.k = "rmap" -> /\ ~writer.NoReflect
                             /\ \A i \in 1..Len(input.e) : writer.OmitNil /\ IsNil(input.e[i].val)
      [] input.k = "rslice" -> ~writer.NoReflect /\ Len(input.e) = 0
      [] input.k = "struct" -> /\ ~writer.NoReflect
                               /\ Len(writer.CreateKey) = 0
                               /\ \A i \in 1..Len(input.e) : input.e[i].mode = "none"
      [] OTHER -> FALSE

\* C9: in indented mode an object none of whose entries is emitted is
\* written as exactly {} and an empty sequence as exactly [], on every
\* emission path.
C9_EmptyBrackets ==
    (ret.op \in EncodeOps /\ Succeeded /\ NoneEmitted) =>
        Output = (IF input.k \in {"arr", "rslice"} THEN <<"[", "]">> ELSE <<"{", "}">>)

\* C10: with a Converter set, every top-level call of Decompose, Alter,
\* JSON, MustJSON, Write and MustWrite invokes Convert exactly once, on the
\* root value, and never on a nested value.
C10_ConvertOnceAtRoot ==
    (ret.op # "none" /\ writer.Converter) => convs = <<input>>

Blank(c) == c \in {"\n", " ", "\t"}

\* A ',' with nothing but newlines and indentation between it and a closing
\* bracket or another ','
DanglingComma(out) ==
    \E i \in 1..Len(out), j \in 1..Len(out) :
        /\ i < j
        /\ out[i] = ","
        /\ out[j] \in {"}", "]", ","}
        /\ \A k \in (i + 1)..(j - 1) : Blank(out[k])

\* A newline and indentation with no entry after it: the next byte that is
\* not a space or a tab is another newline
EmptyLine(out) ==
    \E i \in 1..Len(out), j \in 1..Len(out) :
        /\ i < j
        /\ out[i] = "\n"
        /\ out[j] = "\n"
        /\ \A k \in (i + 1)..(j - 1) : out[k] \in {" ", "\t"}

\* C13: in indented mode, for every value and every combination of OmitNil
\* and Sort, the objects and arrays emitted are well formed: every newline
\* plus indent is followed by an entry or by the closing bracket, entries are
\* separated by exactly one ',', and no ',' stands between the last entry and
\* the closing '}' or ']', also when OmitNil skips entries after others were
\* written.
C13_WellFormed ==
    (ret.op \in EncodeOps /\ Succeeded /\ Indented) =>
        ~DanglingComma(Output) /\ ~EmptyLine(Output)

\* The WriteLimit in force during a streaming encode on a Writer configured
\* with the given limit
EffectiveLimit(configured) == IF configured <= 0 THEN DefaultWriteLimit ELSE configured

\* The chunks a streaming encode delivered under the limit: every chunk
\* before the last is longer than the limit; the last one is either the
\* buffer left by the final write, not longer than the limit, or, when the
\* buffer ended empty, a chunk longer than the limit as well.
Chunked(chunks, buf, limit) ==
    /\ \A i \in 1..(Len(chunks) - 1) : limit < Len(chunks[i])
    /\ IF buf = <<>>
       THEN \A i \in 1..Len(chunks) : limit < Len(chunks[i])
       ELSE /\ 0 < Len(chunks)
            /\ chunks[Len(chunks)] = buf
            /\ Len(buf) <= limit

C14_Step ==
    (ret.op = "none" /\ ret'.op \in StreamOps) =>
        /\ writer'.WriteLimit = EffectiveLimit(writer.WriteLimit)
        /\ \A i \in 1..(Len(sink'.chunks) - 1) : EffectiveLimit(writer.WriteLimit) < Len(sink'.chunks[i])
        /\ (ret'.err = NoPanic /\ ret'.panic = NoPanic)
               => Chunked(sink'.chunks, writer'.buf, EffectiveLimit(writer.WriteLimit))
        /\ (ret'.err = SinkError \/ ret'.panic = SinkError)
               => \A i \in 1..Len(sink'.chunks) : EffectiveLimit(writer.WriteLimit) < Len(sink'.chunks[i])

\* C14: in Write and MustWrite the WriteLimit in force is the configured
\* one, or 1024 when that is <= 0; the sink is handed the whole buffer when
\* the buffer is longer than WriteLimit at the check after an element, and
\* the buffer is then emptied, and it is handed one final chunk at the end
\* exactly when the buffer is not empty then.  So every chunk that is not the
\* final one is longer than WriteLimit and the final one is not.
C14_WriteLimit == [][C14_Step]_vars

\* A streaming encode under a configured limit that succeeded with flushed
\* chunks followed by a final chunk
C14_Witness ==
    /\ ret.op \in StreamOps
    /\ Succeeded
    /\ writer.WriteLimit \in 1..MaxWriteLimit
    /\ 3 <= Len(sink.chunks)
    /\ writer.buf # <<>>
    /\ sink.chunks[Len(sink.chunks)] = writer.buf
    /\ Len(writer.buf) <= writer.WriteLimit

(***************************************************************************)
(* The specifications: the Builder and the Writer, each on its own.        *)
(***************************************************************************)
InitBuilder == BInit /\ WIdle
InitWriter == WInit /\ BInit

SpecBuilder == InitBuilder /\ [][BNext]_vars
SpecWriter == InitWriter /\ [][WNext]_vars

====
